---- MODULE Spec2Model ----
(***************************************************************************)
(* Matryoshka Zipper (src/main.py): a directory tree is archived into a    *)
(* nested hierarchy of zip containers.  The model follows the recursion of *)
(* process_directory step by step: one action per filesystem call          *)
(* (zip_directory, iterdir, zip_file, ZipFile.write in append mode,        *)
(* os.remove) and one per call/return of the recursion.                    *)
(*                                                                         *)
(* A file name is a sequence of atoms (<<"b", ".zip">> is "b.zip"), a path *)
(* is a sequence of names below the directory that holds the root folder.  *)
(***************************************************************************)
EXTENDS Integers, Sequences, FiniteSets, TLC

\* ---------------------------------------------------------------- bounds
MaxNodes == 3       \* entries of the tree below the root folder
MaxNodesTwo == 2    \* the same, where two runs work on the tree

\* ------------------------------------------------------------- alphabet
ZipSuffix == ".zip"
Underscore == "_"
NoUuid == ""                    \* uuid_str=None
Tokens == {"u1", "u2"}          \* values of str(uuid.uuid4())[:8]
OldToken == "u0"                \* the token of an earlier, finished run
Contents == {"x", "y"}          \* byte contents of a file
OldContent == "z"               \* what a file already named *.zip holds

NoLimit == <<>>                 \* max_depth=None
DepthArgs == {NoLimit, <<0>>, <<1>>, <<2>>}

DirNames == {<<"s">>, <<"t">>}
FileNames == {<<"a">>, <<"c">>, <<"b", ZipSuffix>>, <<"a", Underscore, OldToken, ZipSuffix>>}

RootPath == << <<"R">> >>
MissingPath == << <<"M">> >>
NoPath == <<>>                  \* None as a path value

\* ------------------------------------------------------- pathlib helpers
Name(p) == p[Len(p)]
Parent(p) == SubSeq(p, 1, Len(p) - 1)
Join(dir, name) == Append(dir, name)

EndsWithZip(name) == Len(name) > 0 /\ name[Len(name)] = ZipSuffix

\* str.replace(f"_{uuid_str}", ""): every occurrence, left to right
RECURSIVE Replace(_, _)
Replace(s, uuid_str) ==
    IF Len(s) = 0 THEN <<>>
    ELSE IF Len(s) >= 2 /\ s[1] = Underscore /\ s[2] = uuid_str
         THEN Replace(SubSeq(s, 3, Len(s)), uuid_str)
         ELSE <<s[1]>> \o Replace(Tail(s), uuid_str)

\* uuid_str in arcname
RECURSIVE Contains(_, _)
Contains(s, uuid_str) ==
    IF Len(s) = 0 THEN FALSE
    ELSE s[1] = uuid_str \/ Contains(Tail(s), uuid_str)

\* ------------------------------------------------------ file contents
FileData(b) == [zip |-> FALSE, bytes |-> b, entries |-> <<>>]
ZipData(es) == [zip |-> TRUE, bytes |-> "", entries |-> es]
Entry(n, d) == [name |-> n, data |-> d]
DirNode == [kind |-> "dir", data |-> FileData("")]
FileNode(d) == [kind |-> "file", data |-> d]

\* mutant: the file's zip is named without the UUID
ZipFilePathPlain(file_path, uuid_str) ==
    Join(Parent(file_path), Name(file_path) \o <<ZipSuffix>>)

\* ------------------------------------------------------ Archive Builder
ZipFilePath(file_path, uuid_str) ==
    IF uuid_str # NoUuid
    THEN Join(Parent(file_path), Name(file_path) \o <<Underscore, uuid_str, ZipSuffix>>)
    ELSE Join(Parent(file_path), Name(file_path) \o <<ZipSuffix>>)

\* zipf.write(file_path, arcname=file_path.name) into a fresh container
ZipFileData(fs, file_path) == ZipData(<<Entry(Name(file_path), fs[file_path].data)>>)

ZipDirectoryPath(dir_path, uuid_str) ==
    IF uuid_str # NoUuid
    THEN Join(Parent(dir_path), Name(dir_path) \o <<Underscore, uuid_str, ZipSuffix>>)
    ELSE Join(Parent(dir_path), Name(dir_path) \o <<ZipSuffix>>)

\* mutant: the directory is written into its own container
ZipDirectoryDataWithSelf == ZipData(<<Entry(<<".">>, FileData(""))>>)

\* the container is opened in 'w' mode and closed with nothing written
ZipDirectoryData == ZipData(<<>>)

\* open(path, 'w'): creates the file or truncates the one that is there
WriteFile(fs, path, data) ==
    [p \in DOMAIN fs \cup {path} |-> IF p = path THEN FileNode(data) ELSE fs[p]]

\* mutant: the removal leaves the file where it is
RemoveFileNoop(fs, path) == fs

\* os.remove(path)
RemoveFile(fs, path) == [p \in DOMAIN fs \ {path} |-> fs[p]]

\* mutant: the entry is added under its name but with nothing in it
AppendEntryHollow(fs, dir_zip_path, child_zip_path, arcname) ==
    [fs EXCEPT ![dir_zip_path].data.entries = Append(@, Entry(arcname, ZipData(<<>>)))]

\* mutant: the directory's zip is reopened in 'w' mode, which truncates it
AppendEntryTruncating(fs, dir_zip_path, child_zip_path, arcname) ==
    [fs EXCEPT ![dir_zip_path].data.entries =
        <<Entry(arcname, fs[child_zip_path].data)>>]

\* ZipFile(dir_zip_path, 'a').write(child_zip_path, arcname=arcname)
AppendEntry(fs, dir_zip_path, child_zip_path, arcname) ==
    [fs EXCEPT ![dir_zip_path].data.entries =
        Append(@, Entry(arcname, fs[child_zip_path].data))]

\* the append reads the child's zip and reopens the directory's zip
CanAppend(fs, dir_zip_path, child_zip_path) ==
    /\ dir_zip_path \in DOMAIN fs
    /\ child_zip_path \in DOMAIN fs
    /\ fs[dir_zip_path].kind = "file"
    /\ fs[child_zip_path].kind = "file"

\* mutant: only folder_path.exists() is tested
IsDirectoryExists(fs, path) == path \in DOMAIN fs

\* ------------------------------------------------------- Tree Composer
\* folder_path.exists() and folder_path.is_dir()
IsDirectory(fs, path) ==
    IF path \in DOMAIN fs THEN fs[path].kind = "dir" ELSE FALSE

\* mutant: the limit is applied one level too late
DepthExceededLate(current_depth, max_depth) ==
    max_depth # NoLimit /\ current_depth > max_depth[1] + 1

\* mutant: the limit is applied one level too early (>= for >)
DepthExceededAtLimit(current_depth, max_depth) ==
    max_depth # NoLimit /\ current_depth >= max_depth[1]

DepthExceeded(current_depth, max_depth) ==
    max_depth # NoLimit /\ current_depth > max_depth[1]

\* mutant: the recursive call is handed the caller's depth
ChildDepthSame(current_depth) == current_depth

\* the depth handed to the recursive call
ChildDepth(current_depth) == current_depth + 1

\* mutant: the root directory's zip gets the UUID like any other
DirUuidAlways(current_depth, uuid_str) == uuid_str

\* the root directory's zip is the final output and gets no UUID
DirUuid(current_depth, uuid_str) ==
    IF current_depth = 0 THEN NoUuid ELSE uuid_str

\* mutant: the listing walks the whole subtree instead of the directory
IterdirRecursive(fs, dir_path) ==
    {p \in DOMAIN fs : Len(p) > Len(dir_path) /\ SubSeq(p, 1, Len(dir_path)) = dir_path}

Iterdir(fs, dir_path) ==
    {p \in DOMAIN fs : Len(p) = Len(dir_path) + 1 /\ Parent(p) = dir_path}

\* mutant: every regular file is taken as a source, *.zip or not
IsSourceFileAny(fs, item) == fs[item].kind = "file"

IsSourceFile(fs, item) ==
    fs[item].kind = "file" /\ ~EndsWithZip(Name(item))

IsSubdir(fs, item) == fs[item].kind = "dir"

\* mutant: the zip's file name is used as it is
ArcnameWithUuid(zip_path, uuid_str) == Name(zip_path)

\* the arcname of a child zip: its file name with "_<uuid>" stripped
Arcname(zip_path, uuid_str) ==
    IF uuid_str # NoUuid /\ Contains(Name(zip_path), uuid_str)
    THEN Replace(Name(zip_path), uuid_str)
    ELSE Name(zip_path)

\* mutant: the test of keep_intermediate is inverted
RemovesWhenKeeping(keep) == keep

\* mutant: no temporary is ever removed
RemovesNever(keep) == FALSE

\* if not keep_intermediate: os.remove(...)
RemovesTemporary(keep) == ~keep

\* mutant: the listing may give an item more than once
OrdersWithRepeats(S) == [1..Cardinality(S) -> S]

\* the orders in which iterdir may list a set of items
Orders(S) ==
    {s \in [1..Cardinality(S) -> S] : \A i, j \in 1..Cardinality(S) : s[i] = s[j] => i = j}

\* --------------------------------------------------- directory trees
IsDirPath(p) == p = RootPath \/ Name(p) \in DirNames

\* the names an entry added to directory d of tree T may have: names are
\* labels, so a second subdirectory is "t" beside "s", and a second source
\* file "c" beside "a"
NewNames(T, d) ==
    {n \in DirNames \cup FileNames :
        /\ n = <<"t">> => Join(d, <<"s">>) \in T
        /\ n = <<"c">> => Join(d, <<"a">>) \in T}

\* the trees of at most k entries below the root folder, as sets of paths
RECURSIVE Trees(_)
Trees(k) ==
    IF k = 0 THEN {{RootPath}}
    ELSE Trees(k - 1) \cup
         UNION {UNION {{T \cup {Join(d, n)} : n \in NewNames(T, d)}
                       : d \in {p \in T : IsDirPath(p)}}
                : T \in Trees(k - 1)}

\* the filesystem holding tree T, the files' contents given by c
TreeDisk(T, c) ==
    [p \in T |-> IF IsDirPath(p) THEN DirNode
                 ELSE IF p \in DOMAIN c THEN FileNode(FileData(c[p]))
                 ELSE FileNode(FileData(OldContent))]

\* ----------------------------------------------------------------- state
VARIABLES
    disk,               \* path -> [kind, data]: the filesystem
    tree,               \* the filesystem as it was when the run started
    folder_path,        \* matryoshka_zip's arguments
    max_depth,
    keep_intermediate,
    run_uuid,
    created_files,
    stack,              \* the frames of process_directory, innermost last
    pc,                 \* "start", "running", "done", "invalid" or "error"
    log,                \* the operations done so far (the verbose output)
    parked              \* the other runs of the program, each as its context

vars == <<disk, tree, folder_path, max_depth, keep_intermediate, run_uuid,
          created_files, stack, pc, log, parked>>

\* what no step of the running process changes: its arguments, and the
\* processes that are not running
args == <<tree, folder_path, max_depth, keep_intermediate, parked>>

\* the tokens that other runs have drawn: uuid4 does not repeat them
UsedTokens == {parked[i].run_uuid : i \in DOMAIN parked}

Frame(dir_path, current_depth) ==
    [dir_path |-> dir_path, current_depth |-> current_depth,
     dir_zip_path |-> NoPath, files |-> <<>>, subdirs |-> <<>>,
     child_zip_path |-> NoPath, pc |-> "entry"]

Event(op, src, zip, into, name) ==
    [op |-> op, src |-> src, zip |-> zip, into |-> into, name |-> name]

Top == stack[Len(stack)]
SetTop(f) == [stack EXCEPT ![Len(stack)] = f]
Running(at) == pc = "running" /\ Len(stack) > 0 /\ Top.pc = at

\* the top frame's file loop moves on to its next item
NextFile(f) == [f EXCEPT !.files = Tail(@), !.child_zip_path = NoPath, !.pc = "files"]
NextSubdir(f) == [f EXCEPT !.subdirs = Tail(@), !.child_zip_path = NoPath, !.pc = "subdirs"]

Init ==
    /\ \E T \in Trees(MaxNodes) :
         \E c \in [{p \in T : ~IsDirPath(p) /\ ~EndsWithZip(Name(p))} -> Contents] :
            /\ disk = TreeDisk(T, c)
            /\ tree = TreeDisk(T, c)
            /\ folder_path \in {RootPath, MissingPath} \cup {p \in T : Len(p) = 2 /\ ~IsDirPath(p)}
    /\ max_depth \in DepthArgs
    /\ keep_intermediate \in BOOLEAN
    /\ run_uuid = NoUuid
    /\ created_files = {}
    /\ stack = <<>>
    /\ pc = "start"
    /\ log = <<>>
    /\ parked = <<>>

\* mutant: the exception is caught in the frame, which returns as if done
RaiseCaught ==
    /\ pc' = pc
    /\ stack' = SetTop([Top EXCEPT !.files = <<>>, !.subdirs = <<>>,
                                   !.child_zip_path = NoPath, !.pc = "subdirs"])

\* an exception of a filesystem call unwinds every frame of the recursion
Raise ==
    /\ pc' = "error"
    /\ stack' = <<>>

\* matryoshka_zip: the target is missing or is no directory
Invalid ==
    /\ pc = "start"
    /\ ~IsDirectory(disk, folder_path)
    /\ pc' = "invalid"
    /\ UNCHANGED <<disk, args, run_uuid, created_files, stack, log>>

\* mutant: the token is drawn with no regard to the tokens of other runs
StartAnyToken ==
    /\ pc = "start"
    /\ IsDirectory(disk, folder_path)
    /\ run_uuid' \in Tokens
    /\ created_files' = {}
    /\ stack' = <<Frame(folder_path, 0)>>
    /\ pc' = "running"
    /\ UNCHANGED <<disk, args, log>>

\* matryoshka_zip: draw the run's UUID and call process_directory on the root
Start ==
    /\ pc = "start"
    /\ IsDirectory(disk, folder_path)
    /\ run_uuid' \in Tokens \ UsedTokens
    /\ created_files' = {}
    /\ stack' = <<Frame(folder_path, 0)>>
    /\ pc' = "running"
    /\ UNCHANGED <<disk, args, log>>

\* process_directory returns result (NoPath for None) to its caller
Returned(result) ==
    IF Len(stack) = 1
    THEN /\ stack' = <<>>
         /\ pc' = "done"
    ELSE /\ LET caller == stack[Len(stack) - 1]
                rest == SubSeq(stack, 1, Len(stack) - 1)
            IN stack' = [rest EXCEPT ![Len(rest)] =
                            IF result # NoPath
                            THEN [caller EXCEPT !.child_zip_path = result,
                                                !.pc = "append_subdir"]
                            ELSE NextSubdir(caller)]
         /\ pc' = pc

\* process_directory: current_depth > max_depth, return None
DepthSkip ==
    /\ Running("entry")
    /\ DepthExceeded(Top.current_depth, max_depth)
    /\ Returned(NoPath)
    /\ UNCHANGED <<disk, args, run_uuid, created_files, log>>

\* process_directory: create the directory's zip, then list the directory
EnterDirectory ==
    /\ Running("entry")
    /\ ~DepthExceeded(Top.current_depth, max_depth)
    /\ LET dir_zip_path == ZipDirectoryPath(Top.dir_path, DirUuid(Top.current_depth, run_uuid))
           fs == WriteFile(disk, dir_zip_path, ZipDirectoryData)
           items == Iterdir(fs, Top.dir_path)
       IN /\ disk' = fs
          /\ created_files' = created_files \cup {dir_zip_path}
          /\ log' = Append(log, Event("build", Top.dir_path, dir_zip_path, NoPath, <<>>))
          /\ \E files \in Orders({i \in items : IsSourceFile(fs, i)}) :
               \E subdirs \in Orders({i \in items : IsSubdir(fs, i)}) :
                  stack' = SetTop([Top EXCEPT !.dir_zip_path = dir_zip_path,
                                              !.files = files, !.subdirs = subdirs,
                                              !.pc = "files"])
    /\ UNCHANGED <<args, run_uuid, pc>>

\* the file loop: zip_file(file_path, uuid_str=uuid_str)
ZipFile ==
    /\ Running("files")
    /\ Top.files # <<>>
    /\ LET file_path == Head(Top.files)
           file_zip_path == ZipFilePath(file_path, run_uuid)
       IN IF file_path \in DOMAIN disk
          THEN /\ disk' = WriteFile(disk, file_zip_path, ZipFileData(disk, file_path))
               /\ created_files' = created_files \cup {file_zip_path}
               /\ log' = Append(log, Event("build", file_path, file_zip_path, NoPath, <<>>))
               /\ stack' = SetTop([Top EXCEPT !.child_zip_path = file_zip_path,
                                              !.pc = "append_file"])
               /\ pc' = pc
          ELSE Raise /\ UNCHANGED <<disk, created_files, log>>
    /\ UNCHANGED <<args, run_uuid>>

\* the file loop: add the file's zip to the directory's zip
AppendFile ==
    /\ Running("append_file")
    /\ LET arcname == Arcname(Top.child_zip_path, run_uuid)
       IN IF CanAppend(disk, Top.dir_zip_path, Top.child_zip_path)
          THEN /\ disk' = AppendEntry(disk, Top.dir_zip_path, Top.child_zip_path, arcname)
               /\ log' = Append(log, Event("append", NoPath, Top.child_zip_path,
                                           Top.dir_zip_path, arcname))
               /\ stack' = SetTop(IF RemovesTemporary(keep_intermediate)
                                  THEN [Top EXCEPT !.pc = "remove_file"]
                                  ELSE NextFile(Top))
               /\ pc' = pc
          ELSE Raise /\ UNCHANGED <<disk, log>>
    /\ UNCHANGED <<args, run_uuid, created_files>>

\* the file loop: os.remove(file_zip_path)
RemoveFileZip ==
    /\ Running("remove_file")
    /\ IF Top.child_zip_path \in DOMAIN disk
       THEN /\ disk' = RemoveFile(disk, Top.child_zip_path)
            /\ log' = Append(log, Event("remove", NoPath, Top.child_zip_path, NoPath, <<>>))
            /\ stack' = SetTop(NextFile(Top))
            /\ pc' = pc
       ELSE Raise /\ UNCHANGED <<disk, log>>
    /\ UNCHANGED <<args, run_uuid, created_files>>

\* mutant: the file loop is left while files remain
FilesDoneEarly ==
    /\ Running("files")
    /\ stack' = SetTop([Top EXCEPT !.pc = "subdirs"])
    /\ UNCHANGED <<disk, args, run_uuid, created_files, pc, log>>

\* the file loop is exhausted: go on to the subdirectory loop
FilesDone ==
    /\ Running("files")
    /\ Top.files = <<>>
    /\ stack' = SetTop([Top EXCEPT !.pc = "subdirs"])
    /\ UNCHANGED <<disk, args, run_uuid, created_files, pc, log>>

\* the subdirectory loop: process_directory(subdir, current_depth + 1, ...)
Recurse ==
    /\ Running("subdirs")
    /\ Top.subdirs # <<>>
    /\ stack' = Append(SetTop([Top EXCEPT !.pc = "call"]),
                       Frame(Head(Top.subdirs), ChildDepth(Top.current_depth)))
    /\ UNCHANGED <<disk, args, run_uuid, created_files, pc, log>>

\* the subdirectory loop: add the subdirectory's zip to the directory's zip
AppendSubdir ==
    /\ Running("append_subdir")
    /\ LET arcname == Arcname(Top.child_zip_path, run_uuid)
       IN IF CanAppend(disk, Top.dir_zip_path, Top.child_zip_path)
          THEN /\ disk' = AppendEntry(disk, Top.dir_zip_path, Top.child_zip_path, arcname)
               /\ log' = Append(log, Event("append", NoPath, Top.child_zip_path,
                                           Top.dir_zip_path, arcname))
               /\ stack' = SetTop(IF RemovesTemporary(keep_intermediate)
                                  THEN [Top EXCEPT !.pc = "remove_subdir"]
                                  ELSE NextSubdir(Top))
               /\ pc' = pc
          ELSE Raise /\ UNCHANGED <<disk, log>>
    /\ UNCHANGED <<args, run_uuid, created_files>>

\* the subdirectory loop: os.remove(subdir_zip_path)
RemoveSubdirZip ==
    /\ Running("remove_subdir")
    /\ IF Top.child_zip_path \in DOMAIN disk
       THEN /\ disk' = RemoveFile(disk, Top.child_zip_path)
            /\ log' = Append(log, Event("remove", NoPath, Top.child_zip_path, NoPath, <<>>))
            /\ stack' = SetTop(NextSubdir(Top))
            /\ pc' = pc
       ELSE Raise /\ UNCHANGED <<disk, log>>
    /\ UNCHANGED <<args, run_uuid, created_files>>

\* process_directory: return dir_zip_path
Return ==
    /\ Running("subdirs")
    /\ Top.subdirs = <<>>
    /\ Returned(Top.dir_zip_path)
    /\ UNCHANGED <<disk, args, run_uuid, created_files, log>>

Next ==
    \/ Invalid
    \/ Start
    \/ DepthSkip
    \/ EnterDirectory
    \/ ZipFile
    \/ AppendFile
    \/ RemoveFileZip
    \/ FilesDone
    \/ Recurse
    \/ AppendSubdir
    \/ RemoveSubdirZip
    \/ Return

Spec == Init /\ [][Next]_vars

\* the program is one sequential process that goes on while it has a step
SpecLive == Spec /\ WF_vars(Next)

\* ------------------------------------------------------- I/O failures
\* A filesystem call of a run raises OSError.  No call is wrapped in
\* try/except, so the exception leaves process_directory and matryoshka_zip.
\* A failing call leaves the files that exist as they are; a failing build
\* may leave the empty container it had opened.
Failure(fs, path) ==
    /\ disk' = fs
    /\ log' = Append(log, Event("error", NoPath, path, NoPath, <<>>))
    /\ Raise
    /\ UNCHANGED <<args, run_uuid>>

\* zip_directory raises
FailZipDirectory ==
    /\ Running("entry")
    /\ ~DepthExceeded(Top.current_depth, max_depth)
    /\ LET dir_zip_path == ZipDirectoryPath(Top.dir_path, DirUuid(Top.current_depth, run_uuid))
       IN \E fs \in {disk, WriteFile(disk, dir_zip_path, ZipDirectoryData)} :
             Failure(fs, dir_zip_path)
    /\ UNCHANGED created_files

\* dir_path.iterdir() raises, the directory's zip being built
FailIterdir ==
    /\ Running("entry")
    /\ ~DepthExceeded(Top.current_depth, max_depth)
    /\ LET dir_zip_path == ZipDirectoryPath(Top.dir_path, DirUuid(Top.current_depth, run_uuid))
       IN /\ disk' = WriteFile(disk, dir_zip_path, ZipDirectoryData)
          /\ created_files' = created_files \cup {dir_zip_path}
          /\ log' = log \o <<Event("build", Top.dir_path, dir_zip_path, NoPath, <<>>),
                             Event("error", NoPath, Top.dir_path, NoPath, <<>>)>>
    /\ Raise
    /\ UNCHANGED <<args, run_uuid>>

\* zip_file raises
FailZipFile ==
    /\ Running("files")
    /\ Top.files # <<>>
    /\ LET file_zip_path == ZipFilePath(Head(Top.files), run_uuid)
       IN \E fs \in {disk, WriteFile(disk, file_zip_path, ZipData(<<>>))} :
             Failure(fs, file_zip_path)
    /\ UNCHANGED created_files

\* opening the directory's zip for append, or writing the child's zip, raises
FailAppend ==
    /\ Running("append_file") \/ Running("append_subdir")
    /\ Failure(disk, Top.dir_zip_path)
    /\ UNCHANGED created_files

\* os.remove raises
FailRemove ==
    /\ Running("remove_file") \/ Running("remove_subdir")
    /\ Failure(disk, Top.child_zip_path)
    /\ UNCHANGED created_files

NextFail ==
    \/ Next
    \/ FailZipDirectory
    \/ FailIterdir
    \/ FailZipFile
    \/ FailAppend
    \/ FailRemove

SpecFail == Init /\ [][NextFail]_vars

\* ------------------------------------------------------------ two runs
\* the running process as it is put aside; out is what it has produced
Saved(out) ==
    [run_uuid |-> run_uuid, created_files |-> created_files, stack |-> stack,
     pc |-> pc, log |-> log, max_depth |-> max_depth,
     keep_intermediate |-> keep_intermediate, output |-> out]

\* a process that has not begun matryoshka_zip
NewRun(depth, keep) ==
    [run_uuid |-> NoUuid, created_files |-> {}, stack |-> <<>>,
     pc |-> "start", log |-> <<>>, max_depth |-> depth,
     keep_intermediate |-> keep, output |-> ZipData(<<>>)]

\* the processor turns to process o
Resume(o) ==
    /\ run_uuid' = o.run_uuid
    /\ created_files' = o.created_files
    /\ stack' = o.stack
    /\ pc' = o.pc
    /\ log' = o.log
    /\ max_depth' = o.max_depth
    /\ keep_intermediate' = o.keep_intermediate

\* two processes run the program on the same folder
InitTwo ==
    /\ \E T \in Trees(MaxNodesTwo) :
         \E c \in [{p \in T : ~IsDirPath(p) /\ ~EndsWithZip(Name(p))} -> {"x"}] :
            /\ disk = TreeDisk(T, c)
            /\ tree = TreeDisk(T, c)
    /\ folder_path \in {RootPath, MissingPath}
    /\ max_depth \in {NoLimit, <<0>>}
    /\ keep_intermediate \in BOOLEAN
    /\ run_uuid = NoUuid
    /\ created_files = {}
    /\ stack = <<>>
    /\ pc = "start"
    /\ log = <<>>
    /\ \E keep \in BOOLEAN : parked = <<NewRun(max_depth, keep)>>

\* the scheduler switches between the two processes, between any two
\* filesystem calls
Switch ==
    /\ parked # <<>>
    /\ Resume(parked[1])
    /\ parked' = <<Saved(ZipData(<<>>))>>
    /\ UNCHANGED <<disk, tree, folder_path>>

NextTwo ==
    \/ Next
    \/ Switch

SpecTwo == InitTwo /\ [][NextTwo]_vars

\* ------------------------------------------------- one run after another
InitAgain ==
    /\ \E T \in Trees(MaxNodesTwo) :
         \E c \in [{p \in T : ~IsDirPath(p) /\ ~EndsWithZip(Name(p))} -> Contents] :
            /\ disk = TreeDisk(T, c)
            /\ tree = TreeDisk(T, c)
    /\ folder_path \in {RootPath, MissingPath}
    /\ max_depth \in DepthArgs
    /\ keep_intermediate \in BOOLEAN
    /\ run_uuid = NoUuid
    /\ created_files = {}
    /\ stack = <<>>
    /\ pc = "start"
    /\ log = <<>>
    /\ parked = <<>>

\* the program is run a second time, with the same arguments, on the
\* filesystem as the first run has left it
Rerun ==
    /\ pc = "done"
    /\ parked = <<>>
    /\ parked' = <<Saved(disk[ZipDirectoryPath(folder_path, NoUuid)].data)>>
    /\ run_uuid' = NoUuid
    /\ created_files' = {}
    /\ stack' = <<>>
    /\ pc' = "start"
    /\ log' = <<>>
    /\ UNCHANGED <<disk, tree, folder_path, max_depth, keep_intermediate>>

NextAgain ==
    \/ Next
    \/ Rerun

SpecAgain == InitAgain /\ [][NextAgain]_vars


\* ================================================================ claims
Done == pc = "done"
Unlimited == max_depth = NoLimit

\* R.zip beside R
RootZip == Join(Parent(folder_path), Name(folder_path) \o <<ZipSuffix>>)

Rel(p) == SubSeq(p, Len(folder_path) + 1, Len(p))
Depth(p) == Len(p) - Len(folder_path)
Under(p, d) == Len(p) > Len(d) /\ SubSeq(p, 1, Len(d)) = d

\* the entries of the tree the run was given: the root folder and all below it
Entries == {p \in DOMAIN tree : p = folder_path \/ Under(p, folder_path)}
TreeFiles == {p \in Entries : tree[p].kind = "file"}
TreeDirs == {p \in Entries : tree[p].kind = "dir"}
ZipNamed == {p \in TreeFiles : EndsWithZip(Name(p))}

Builds == {i \in DOMAIN log : log[i].op = "build"}
Appends == {i \in DOMAIN log : log[i].op = "append"}
Removes == {i \in DOMAIN log : log[i].op = "remove"}
BuildCount(p) == Cardinality({i \in Builds : log[i].src = p})
Tokened(path) == Contains(Name(path), run_uuid)

Stem(name) == SubSeq(name, 1, Len(name) - 1)

\* unpack a container and, recursively, every entry of it named *.zip:
\* the files that come out, each with the chain of containers it was in
RECURSIVE Extract(_, _)
Extract(data, chain) ==
    UNION {LET e == data.entries[i]
           IN IF EndsWithZip(e.name) /\ e.data.zip
              THEN Extract(e.data, Append(chain, Stem(e.name)))
              ELSE {[chain |-> chain, name |-> e.name, data |-> e.data]}
           : i \in DOMAIN data.entries}

\* file p of the tree as it should come out: under the containers of its
\* directories and its own, with its name and its bytes
Leaf(p) == [chain |-> Rel(p), name |-> Name(p), data |-> tree[p].data]

\* C1 as stated: after a run with no depth limit, unpacking the root container
\* and every nested *.zip entry gives back every file of the original tree,
\* at its place, with its bytes.
RoundTripEveryFile ==
    (Done /\ Unlimited) =>
        /\ RootZip \in DOMAIN disk
        /\ Extract(disk[RootZip].data, <<>>) = {Leaf(p) : p \in TreeFiles}

\* C1 amended: after a run with no depth limit, unpacking the root container
\* and every nested *.zip entry gives back exactly the files of the original
\* tree whose names do not end in .zip, each at its place with its bytes,
\* whatever keep_intermediate is; files named *.zip are left out.
RoundTripSourceFiles ==
    (Done /\ Unlimited) =>
        /\ RootZip \in DOMAIN disk
        /\ Extract(disk[RootZip].data, <<>>) = {Leaf(p) : p \in TreeFiles \ ZipNamed}

RoundTripWitness ==
    /\ Done /\ Unlimited /\ ~keep_intermediate
    /\ \E p, q \in TreeFiles \ ZipNamed : Depth(p) = 1 /\ Depth(q) = 2
    /\ Cardinality(Extract(disk[RootZip].data, <<>>)) = 2

\* C2 as stated: with no depth limit every entry of the tree, file or
\* directory, gets exactly one container, and without keep_intermediate
\* exactly the root's is left when the run is over.
OneContainerPerEntry ==
    (Done /\ Unlimited) =>
        /\ \A p \in Entries : BuildCount(p) = 1
        /\ Cardinality(created_files) = Cardinality(Entries)
        /\ ~keep_intermediate => created_files \cap DOMAIN disk = {RootZip}

\* C2 amended: with no depth limit every directory of the tree and every file
\* whose name does not end in .zip gets exactly one container, a file named
\* *.zip gets none, and without keep_intermediate exactly the root's
\* container is left when the run is over.
OneContainerPerSourceEntry ==
    (Done /\ Unlimited) =>
        /\ \A p \in Entries \ ZipNamed : BuildCount(p) = 1
        /\ \A p \in ZipNamed : BuildCount(p) = 0
        /\ \A i \in Builds : log[i].src \in Entries
        /\ Cardinality(created_files) = Cardinality(Entries \ ZipNamed)
        /\ ~keep_intermediate => created_files \cap DOMAIN disk = {RootZip}

OneContainerWitness ==
    /\ Done /\ Unlimited /\ ~keep_intermediate
    /\ Cardinality(TreeDirs) >= 3
    /\ Cardinality(TreeFiles \ ZipNamed) >= 1
    /\ Cardinality(created_files) = 4
    /\ created_files \cap DOMAIN disk = {RootZip}

\* C3: when a run is over, with keep_intermediate every artifact built for
\* anything but the root is on disk at its tokened path; without it none of
\* them is, and no path carrying the run's token is on disk.
KeepDiscardPolicy ==
    Done =>
        /\ keep_intermediate =>
             \A i \in Builds : log[i].src # folder_path =>
                 /\ Tokened(log[i].zip)
                 /\ log[i].zip \in DOMAIN disk
                 /\ disk[log[i].zip].kind = "file"
        /\ ~keep_intermediate =>
             /\ \A i \in Builds : log[i].src # folder_path => log[i].zip \notin DOMAIN disk
             /\ \A p \in DOMAIN disk : ~Tokened(p)

KeepDiscardWitness ==
    /\ Done /\ ~keep_intermediate
    /\ \E i, j \in Builds : /\ log[i].src \in TreeFiles
                            /\ log[j].src \in TreeDirs \ {folder_path}
    /\ Cardinality(Removes) >= 2

\* C4: the root directory's artifact is R.zip beside R, with no token in its
\* name; every other artifact carries the token; depth 0 is the root and only
\* the root; the root artifact, once built, is never removed.
RootArtifactInvariant ==
    /\ \A i \in Builds :
          IF log[i].src = folder_path
          THEN log[i].zip = RootZip /\ ~Tokened(log[i].zip)
          ELSE Tokened(log[i].zip) /\ log[i].zip # RootZip
    /\ \A i \in Removes : log[i].zip # RootZip
    /\ \A k \in DOMAIN stack :
          (stack[k].current_depth = 0) <=> (stack[k].dir_path = folder_path)
    /\ (\E i \in Builds : log[i].src = folder_path) =>
          /\ RootZip \in DOMAIN disk
          /\ disk[RootZip].kind = "file"
          /\ disk[RootZip].data.zip

RootArtifactWitness ==
    /\ Done /\ ~keep_intermediate
    /\ \E i, j \in Builds : /\ log[i].src \in TreeFiles
                            /\ log[j].src \in TreeDirs \ {folder_path}
    /\ Cardinality(Removes) >= 2
    /\ Len(disk[RootZip].data.entries) = 2

\* no entry name at any nesting level of a container holds the run's token
RECURSIVE TokenFree(_)
TokenFree(data) ==
    \A i \in DOMAIN data.entries :
        /\ ~Contains(data.entries[i].name, run_uuid)
        /\ TokenFree(data.entries[i].data)

\* C5: an entry appended to a directory's container is named after the child
\* the artifact was built for, <child name>.zip, which is the artifact's file
\* name less "_<token>"; no entry name at any level holds the token.
EntryNaming ==
    /\ \A i \in Appends :
          \E j \in Builds :
             /\ j < i
             /\ log[j].zip = log[i].zip
             /\ Parent(log[j].src) # NoPath
             /\ log[i].name = Name(log[j].src) \o <<ZipSuffix>>
             /\ Name(log[i].zip) = Name(log[j].src) \o <<Underscore, run_uuid, ZipSuffix>>
    /\ \A p \in DOMAIN disk : disk[p].kind = "file" => TokenFree(disk[p].data)

EntryNamingWitness ==
    /\ Done
    /\ \E i, j \in Appends :
          \E p \in TreeFiles, d \in TreeDirs :
             /\ log[i].name = Name(p) \o <<ZipSuffix>>
             /\ log[j].name = Name(d) \o <<ZipSuffix>>
             /\ Depth(p) = 2
             /\ log[j].into = RootZip


\* ------------------------------------------------------ depth limit
WithinLimit(k) == Unlimited \/ k <= max_depth[1]
Processed(d) == \E i \in Builds : log[i].src = d
Children(d) == {p \in Entries : Parent(p) = d}
EntryNames(data) == {data.entries[i].name : i \in DOMAIN data.entries}
NoContainer == FileData("no such entry")

\* the container of the directory at rel below the directory of data: follow
\* the entries <name>.zip, each of which must be there exactly once
RECURSIVE Inside(_, _)
Inside(data, rel) ==
    IF rel = <<>> THEN data
    ELSE LET hits == {i \in DOMAIN data.entries :
                         data.entries[i].name = rel[1] \o <<ZipSuffix>>}
         IN IF Cardinality(hits) = 1
            THEN Inside(data.entries[CHOOSE i \in hits : TRUE].data, Tail(rel))
            ELSE NoContainer

Container(d) == Inside(disk[RootZip].data, Rel(d))

\* the entries a processed directory's container ends with, given the
\* children that get one
HoldsExactly(data, children) ==
    /\ data.zip
    /\ Len(data.entries) = Cardinality(children)
    /\ EntryNames(data) = {Name(p) \o <<ZipSuffix>> : p \in children}

\* C6 as stated: with max_depth = 0 the root container ends with one entry per
\* immediate file of the root and none for a subdirectory, and nothing is
\* built for a subdirectory or for a file below the root directory.
DepthZeroEveryFile ==
    (Done /\ max_depth = <<0>>) =>
        /\ HoldsExactly(disk[RootZip].data, Children(folder_path) \cap TreeFiles)
        /\ \A i \in Builds :
              \/ log[i].src = folder_path
              \/ log[i].src \in TreeFiles /\ Depth(log[i].src) = 1

\* C6 amended: with max_depth = 0 the root container ends with one entry per
\* immediate file of the root whose name does not end in .zip and none for a
\* subdirectory, and nothing is built for a subdirectory or for a file below
\* the root directory, however deep the tree is.
DepthZero ==
    (Done /\ max_depth = <<0>>) =>
        /\ HoldsExactly(disk[RootZip].data,
                        (Children(folder_path) \cap TreeFiles) \ ZipNamed)
        /\ \A i \in Builds :
              \/ log[i].src = folder_path
              \/ log[i].src \in TreeFiles /\ Depth(log[i].src) = 1

DepthZeroWitness ==
    /\ Done /\ max_depth = <<0>>
    /\ \E d, e \in TreeDirs : Depth(d) = 1 /\ Depth(e) = 2
    /\ \E p \in TreeFiles \ ZipNamed : Depth(p) = 1
    /\ Len(disk[RootZip].data.entries) = 1

\* C7 as stated: with max_depth = 1 every immediate subdirectory of the root
\* is an entry of the root container and its container has no entries.
DepthOneEmptySubdirs ==
    (Done /\ max_depth = <<1>>) =>
        \A d \in Children(folder_path) \cap TreeDirs :
            Container(d) = ZipData(<<>>)

\* C7 amended: with max_depth = 1 every immediate subdirectory of the root is
\* an entry of the root container, and its container holds one entry per file
\* of the subdirectory whose name does not end in .zip and none for the
\* subdirectory's own directories, which are skipped.
DepthOne ==
    (Done /\ max_depth = <<1>>) =>
        /\ \A d \in Children(folder_path) \cap TreeDirs :
              HoldsExactly(Container(d), (Children(d) \cap TreeFiles) \ ZipNamed)
        /\ \A d \in TreeDirs : Depth(d) >= 2 => ~Processed(d)

DepthOneWitness ==
    /\ Done /\ max_depth = <<1>>
    /\ \E d \in Children(folder_path) \cap TreeDirs :
          /\ Children(d) \cap TreeDirs # {}
          /\ (Children(d) \cap TreeFiles) \ ZipNamed # {}
          /\ Len(Container(d).entries) = 1

\* the directory an artifact's source lies in, or is
DirOf(src) == IF src \in TreeDirs THEN src ELSE Parent(src)

DepthTwoIsTwoLevels ==
    max_depth = <<2>> =>
        /\ \A i \in Builds : Depth(DirOf(log[i].src)) <= 1
        /\ \A i \in Appends : \A d \in TreeDirs :
              (Depth(d) >= 2 /\ (\E j \in Builds : log[j].src = Parent(d)
                                                  /\ log[j].zip = log[i].into))
                 => log[i].name # Name(d) \o <<ZipSuffix>>

\* C10: a directory with no files and no subdirectories, the root or a nested
\* one within the depth limit, yields a container with zero entries, which is
\* appended to its parent's container like any other, and no step fails.
EmptyDirectory ==
    /\ pc # "error"
    /\ Done =>
          \A d \in TreeDirs : (Children(d) = {} /\ WithinLimit(Depth(d))) =>
              /\ Container(d) = ZipData(<<>>)
              /\ \E i \in Builds :
                    /\ log[i].src = d
                    /\ d # folder_path => \E j \in Appends : j > i /\ log[j].zip = log[i].zip
                    /\ keep_intermediate =>
                          /\ log[i].zip \in DOMAIN disk
                          /\ disk[log[i].zip].data = ZipData(<<>>)

EmptyDirectoryWitness ==
    /\ Done /\ max_depth = <<2>>
    /\ \E d, f \in TreeDirs :
          /\ Depth(d) = 2 /\ Children(d) = {} /\ Container(d) = ZipData(<<>>)
          /\ Depth(f) = 1 /\ Children(f) = {} /\ Container(f) = ZipData(<<>>)

EmptyRootWitness ==
    /\ Done
    /\ Children(folder_path) = {}
    /\ disk[RootZip].data = ZipData(<<>>)

\* ------------------------------------------------------ invalid input
\* the target exists in the filesystem the run is given, and is a directory
TargetIsFolder == \E p \in DOMAIN tree : p = folder_path /\ tree[p].kind = "dir"

\* C11: when the target is missing or is no directory, matryoshka_zip returns
\* without raising and without work: no token is drawn, nothing is built,
\* appended or removed, and the filesystem is as it was.
InvalidInput ==
    /\ ~TargetIsFolder =>
          /\ pc \in {"start", "invalid"}
          /\ disk = tree
          /\ run_uuid = NoUuid
          /\ created_files = {}
          /\ stack = <<>>
          /\ log = <<>>
    /\ pc = "invalid" => ~TargetIsFolder

InvalidInputWitness ==
    /\ pc = "invalid"
    /\ folder_path \in DOMAIN tree
    /\ tree[folder_path].kind = "file"
    /\ Cardinality(DOMAIN tree) = 4

InvalidMissingWitness ==
    /\ pc = "invalid"
    /\ folder_path \notin DOMAIN tree

\* ------------------------------------------------------ failure policy
Errors == {i \in DOMAIN log : log[i].op = "error"}

\* what holds once a call has failed: the run is over with the error, which
\* is the last thing that happened, and every artifact built and not yet
\* removed before it is still on disk
Aborted ==
    Errors # {} =>
        /\ pc = "error"
        /\ stack = <<>>
        /\ Errors = {Len(log)}
        /\ \A i \in Builds :
              (\A j \in Removes : log[j].zip # log[i].zip) =>
                  /\ log[i].zip \in DOMAIN disk
                  /\ disk[log[i].zip].kind = "file"

\* the failing step changes no file that exists, and no step follows it
AbortStep ==
    /\ pc' = "error" => \A p \in DOMAIN disk : p \in DOMAIN disk' /\ disk'[p] = disk[p]
    /\ pc = "error" => UNCHANGED vars

\* C12: a failing build, append or delete at any depth aborts the whole run at
\* once: the error reaches the caller, no enclosing level builds, appends or
\* deletes anything afterwards, and what was created before stays on disk as
\* it was.
FailurePolicy == [](Aborted /\ (pc = "error" => Errors # {})) /\ [][AbortStep]_vars

FailurePolicyWitness ==
    /\ pc = "error" /\ ~keep_intermediate
    /\ Cardinality(Builds) >= 3
    /\ Cardinality(Removes) >= 1
    /\ log[Len(log) - 1].op = "append"
    /\ \E p \in DOMAIN disk : Tokened(p)

\* ---------------------------------------------------- isolation of runs
\* the temporary artifacts a run with log l has built: all but the root's
TempPaths(l) ==
    {l[i].zip : i \in {k \in DOMAIN l : l[k].op = "build" /\ l[k].src # folder_path}}

\* the paths a run has written, read as a source or as a child zip, or removed
Touched(l) ==
    {l[i].zip : i \in DOMAIN l} \cup
    {l[i].src : i \in {k \in DOMAIN l : l[k].op = "build"}}

\* the files a run's frames hold as sources to zip
Pending(stk) == UNION {{stk[k].files[i] : i \in DOMAIN stk[k].files} : k \in DOMAIN stk}

\* C13: of two runs with distinct tokens interleaved on one tree, the
\* temporary artifacts are at disjoint paths, and neither run writes, takes as
\* a source, appends from or removes a temporary artifact of the other.
Isolation ==
    \A k \in DOMAIN parked :
        LET other == parked[k]
        IN /\ (run_uuid # NoUuid /\ other.run_uuid # NoUuid) => run_uuid # other.run_uuid
           /\ TempPaths(log) \cap TempPaths(other.log) = {}
           /\ Touched(log) \cap TempPaths(other.log) = {}
           /\ Touched(other.log) \cap TempPaths(log) = {}
           /\ Pending(stack) \cap TempPaths(other.log) = {}
           /\ Pending(other.stack) \cap TempPaths(log) = {}
           /\ created_files \cap other.created_files \subseteq {RootZip}
           /\ pc # "error" /\ other.pc # "error"

IsolationWitness ==
    /\ Len(parked) = 1
    /\ pc = "running" /\ parked[1].pc = "running"
    /\ Top.pc = "append_file"
    /\ parked[1].stack[Len(parked[1].stack)].pc = "entry"
    /\ Len(parked[1].stack) = 2
    /\ \E p \in TempPaths(log), q \in TempPaths(parked[1].log) :
          /\ p \in DOMAIN disk /\ q \in DOMAIN disk
          /\ Parent(p) = Parent(q)

\* ------------------------------------------------- idempotence of naming
\* the entry names of a container, level by level
RECURSIVE NameTree(_)
NameTree(data) ==
    {<<data.entries[i].name, NameTree(data.entries[i].data)>> : i \in DOMAIN data.entries}

\* C14: a second run on the same tree with the same options, started when the
\* first is over, draws another token and gives a root container with the
\* same entry names at every nesting level.
NamingIdempotent ==
    (Done /\ parked # <<>>) =>
        /\ run_uuid # parked[1].run_uuid
        /\ NameTree(disk[RootZip].data) = NameTree(parked[1].output)
        /\ Len(disk[RootZip].data.entries) = Len(parked[1].output.entries)

NamingIdempotentWitness ==
    /\ Done /\ Len(parked) = 1 /\ keep_intermediate
    /\ \E p \in TreeFiles \ ZipNamed : Depth(p) = 2
    /\ \E p \in DOMAIN disk : Contains(Name(p), parked[1].run_uuid)
    /\ \E p \in DOMAIN disk : Tokened(p)
    /\ Cardinality(NameTree(disk[RootZip].data)) = 1

\* ------------------------------------------------- consume-once lifecycle
\* the artifacts built so far that are not the root's
Artifacts == {log[i].zip : i \in Builds} \ {RootZip}
AppendsOf(z) == {i \in Appends : log[i].zip = z}
RemovesOf(z) == {i \in Removes : log[i].zip = z}
\* the container of the directory that holds the source of artifact z
ParentZips(z) ==
    {log[c].zip : c \in {c \in Builds :
        \E b \in Builds : log[b].zip = z /\ log[c].src = Parent(log[b].src)}}

\* C15: every artifact but the root's is appended at most once, and only into
\* the container of its parent directory; when the run is over it has been
\* appended exactly once and, unless keep_intermediate, removed exactly once;
\* a removal comes right after the append of the same artifact, and never
\* targets the root artifact, an entry of the tree or, with keep_intermediate,
\* anything.
ConsumeOnce ==
    /\ \A i \in Appends :
          /\ log[i].zip \in Artifacts
          /\ \E b \in Builds : b < i /\ log[b].zip = log[i].zip
          /\ ParentZips(log[i].zip) = {log[i].into}
    /\ \A z \in Artifacts :
          /\ Cardinality(AppendsOf(z)) <= 1
          /\ Cardinality(RemovesOf(z)) <= 1
          /\ Done => Cardinality(AppendsOf(z)) = 1
          /\ (Done /\ ~keep_intermediate) =>
                Cardinality(RemovesOf(z)) = 1 /\ z \notin DOMAIN disk
          /\ keep_intermediate => z \in DOMAIN disk
    /\ \A r \in Removes :
          /\ ~keep_intermediate
          /\ log[r].zip \in Artifacts
          /\ log[r].zip \notin DOMAIN tree
          /\ r > 1 /\ log[r - 1].op = "append" /\ log[r - 1].zip = log[r].zip
    /\ (pc \in {"running", "done"}) => RootZip \in DOMAIN disk \/ log = <<>>

ConsumeOnceWitness ==
    /\ Done /\ ~keep_intermediate
    /\ Cardinality(Artifacts) = 3
    /\ Cardinality(Removes) = 3
    /\ \E z \in Artifacts : \E i \in AppendsOf(z) : log[i].into # RootZip

\* ------------------------------------------------ files before subdirectories
\* the sources of the artifact that event i is about
SrcOf(i) == {log[b].src : b \in {b \in Builds : log[b].zip = log[i].zip}}
\* f is a file of some directory, and s a subdirectory of that directory or
\* something below one
FileAndSubdir(f, s) ==
    /\ f \in TreeFiles
    /\ Under(s, Parent(f))
    /\ s \in TreeDirs \/ Len(s) > Len(f)
\* the source files of directory d
SourceFiles(d) == {f \in TreeFiles \ ZipNamed : Parent(f) = d}
\* file f has been built, appended and, unless keep_intermediate, removed
FullyProcessed(f) ==
    \E b \in Builds :
        /\ log[b].src = f
        /\ AppendsOf(log[b].zip) # {}
        /\ ~keep_intermediate => RemovesOf(log[b].zip) # {}

\* C16: when the recursion is in a subdirectory of d, every file of d has
\* been built, appended and (unless keep_intermediate) removed, and the file
\* loop of d is over; in the history no step on a file of d comes after a step
\* on a subdirectory of d.
FilesBeforeSubdirs ==
    /\ \A k \in 1..(Len(stack) - 1) :
          /\ stack[k].pc = "call"
          /\ stack[k].files = <<>>
          /\ \A f \in SourceFiles(stack[k].dir_path) : FullyProcessed(f)
    /\ LET src == [i \in DOMAIN log |-> SrcOf(i)]
       IN \A j \in DOMAIN log : \A i \in (j + 1)..Len(log) :
             \A f \in src[i] : \A s \in src[j] : ~FileAndSubdir(f, s)

FilesBeforeSubdirsWitness ==
    /\ Len(stack) = 2 /\ ~keep_intermediate
    /\ Top.pc = "append_file"
    /\ SourceFiles(stack[1].dir_path) # {}
    /\ \E i, j \in DOMAIN log :
          /\ i < j /\ log[i].op = "remove"
          /\ \E f \in SrcOf(i) : \E s \in SrcOf(j) : FileAndSubdir(f, s)

\* ------------------------------------------------- finished before append
AppendsInto(z) == {j \in Appends : log[j].into = z}

\* C17: the container of a directory is created before any of its children is
\* built; nothing is appended into a container, and it is not rebuilt, once it
\* has itself been appended into its parent; while the appended container and
\* its parent are both on disk the entry stored in the parent is the container
\* as it is on disk, with one entry per append made into it.
FinishedBeforeAppend ==
    /\ \A b \in Builds :
          log[b].src # folder_path =>
             \E c \in Builds : c < b /\ log[c].src = Parent(log[b].src)
    /\ \A i \in Appends : \A j \in DOMAIN log :
          (log[j].op \in {"append", "build"}
             /\ (log[j].into = log[i].zip \/ (log[j].op = "build" /\ log[j].zip = log[i].zip)))
          => j < i
    /\ \A i \in Appends :
          (log[i].zip \in DOMAIN disk /\ log[i].into \in DOMAIN disk) =>
             LET es == disk[log[i].into].data.entries
                 stored == Entry(log[i].name, disk[log[i].zip].data)
             IN /\ \E k \in DOMAIN es : es[k] = stored
                /\ SrcOf(i) \subseteq TreeDirs =>
                      Len(stored.data.entries) = Cardinality(AppendsInto(log[i].zip))

FinishedBeforeAppendWitness ==
    /\ Done /\ keep_intermediate
    /\ \E i \in Appends :
          /\ SrcOf(i) \subseteq TreeDirs
          /\ Cardinality(AppendsInto(log[i].zip)) = 2
          /\ \E j \in AppendsInto(log[i].zip) : SrcOf(j) \subseteq TreeDirs

\* -------------------------------------------------- pre-existing *.zip files
\* the containers the run has written that are on disk
Written == {q \in created_files : q \in DOMAIN disk}

\* C18: a file of the tree named *.zip is never the source of a build, never
\* appended nor appended into, never removed; it stays on disk as it was, and
\* its bytes are in no container the run has written.
ZipFilesUntouched ==
    \A p \in ZipNamed :
        /\ p \in DOMAIN disk /\ disk[p] = tree[p]
        /\ \A i \in DOMAIN log : log[i].src # p /\ log[i].zip # p /\ log[i].into # p
        /\ p \notin created_files
        /\ \A q \in Written : \A x \in Extract(disk[q].data, <<>>) : x.data # tree[p].data

ZipFilesUntouchedWitness ==
    /\ Done /\ Unlimited /\ ~keep_intermediate
    /\ \E p \in ZipNamed :
          /\ Name(p) = <<"a", Underscore, OldToken, ZipSuffix>>
          /\ Depth(p) = 2
          /\ Join(Parent(p), <<"a">>) \in TreeFiles

\* ------------------------------------------------------ bounded temporaries
Temporaries == {p \in DOMAIN disk : Tokened(p)}
\* the containers of the directories on the recursion path, the root's apart
PathContainers ==
    {stack[k].dir_zip_path : k \in {k \in 2..Len(stack) : stack[k].pc # "entry"}}
\* the child artifact that is built or returned and not yet removed
ChildArtifact ==
    IF Len(stack) > 0 /\ Top.pc \in {"append_file", "remove_file", "append_subdir", "remove_subdir"}
    THEN {Top.child_zip_path}
    ELSE {}
CurrentDepth == IF stack = <<>> THEN 0 ELSE Top.current_depth

\* C19: without keep_intermediate the artifacts on disk that carry the run's
\* token are exactly the containers of the directories on the recursion path
\* below the root, and the one child artifact that is built or returned and
\* not yet removed; they are at most current depth + 1.
BoundedTemporaries ==
    ~keep_intermediate =>
        /\ Temporaries = PathContainers \cup ChildArtifact
        /\ Cardinality(Temporaries) <= CurrentDepth + 1

BoundedTemporariesWitness ==
    /\ ~keep_intermediate
    /\ Len(stack) = 3 /\ Top.pc = "append_file"
    /\ Cardinality(Temporaries) = 3

\* ------------------------------------------------------------- termination
\* C20: a run with no I/O failure comes to its end, whatever the tree, max_depth
\* and keep_intermediate are, and at no time has a directory been entered, or
\* a file been built, more than once.
Termination ==
    /\ <>(pc \in {"done", "invalid"})
    /\ [](\A p \in Entries : BuildCount(p) <= 1)

TerminationWitness ==
    /\ Done
    /\ Cardinality(Builds) = 4
    /\ \E p \in TreeDirs : Depth(p) = 2 /\ BuildCount(p) = 1

====
